---- MODULE Spec2Model ----
(***************************************************************************)
(* A model of jellbrid's selection engine (RealDebridDownloader,           *)
(* clients/realdebrid/downloader.py) and of its dedup ledger               *)
(* (SqliteRequestRepo, storage/repo.py).                                   *)
(*                                                                         *)
(* Spec        one RealDebridDownloader instance on which one strategy is  *)
(*             invoked; every await of the coroutine is one step, and the  *)
(*             resolver and the remote transfer service answer             *)
(*             nondeterministically.  `log` is the trace of the calls the  *)
(*             engine issued to its collaborators, with their answers.     *)
(* LedgerSpec  concurrent callers of one SqliteRequestRepo, each of which  *)
(*             checks has_movie/has_season/has_episode and then add()s,    *)
(*             plus the lifecycle sweep that delete()s rows.               *)
(***************************************************************************)
EXTENDS Naturals, Sequences, FiniteSets

VARIABLES
    \* ---- RealDebridDownloader ----
    request,      \* self.request
    streams,      \* self.streams, the ordered candidate list
    filters,      \* self.filters
    dev_mode,     \* self.rdbc.cfg.dev_mode
    strategy,     \* the strategy coroutine that was invoked ("" before)
    pc,           \* where that coroutine stands
    candidates,   \* the local list the strategy iterates
    idx,          \* position of the current stream in candidates
    loop,         \* which for loop of the strategy is running (1, or 2 in download_show)
    torrent_id,   \* _download: torrent_id of the transfer just registered
    registered,   \* number of transfers the remote service has created
    log,          \* the calls issued to the resolver and the remote service
    outcome,      \* "pending" | "returned" | "none" | "raised"
    ret,          \* the identifier returned when outcome = "returned"
    \* ---- SqliteRequestRepo and its callers ----
    rows,         \* the active_downloads table
    next_pk,      \* the table's next primary key
    cpc,          \* caller -> "idle" | "checked" | "added" | "skipped"
    cdl,          \* caller -> the (identity, season, episode) it is after
    cseen,        \* caller -> what its has_* check answered
    \* ---- construction of engines from one caller-supplied filter list ----
    given,        \* the `filters` argument as the caller built it (or omitted)
    caller_list,  \* what the caller's list object holds now
    eng_ref,      \* engine -> which list object its self.filters is
    eng_own,      \* engine -> the list object __init__ created for it
    eng_ffs       \* engine -> file_filters of its last resolver call

dvars == <<request, streams, filters, dev_mode, strategy, pc, candidates, idx,
           loop, torrent_id, registered, log, outcome, ret>>
lvars == <<rows, next_pk, cpc, cdl, cseen>>
cvars == <<given, caller_list, eng_ref, eng_own, eng_ffs>>
vars == <<dvars, lvars, cvars>>

----------------------------------------------------------------------------
\* Bounds of the model.
MaxStreams == 2
MaxEpisodes == 5

MaxSeason == 1
MaxEpisodeNo == 1
NumCallers == 2
NumEngines == 2
MaxCustom == 1

\* Program constants.
ShortTitleLen == 6
FirstPassPct == 80
SecondPassPct == 0
ExactCount == 1
EmptyId == 0

----------------------------------------------------------------------------
\* The Request variants and their attributes.
Requests ==
    [kind : {"Movie"}, title_len : {ShortTitleLen - 1, ShortTitleLen}]
    \cup [kind : {"Season"}, episodes : {1..n : n \in 1..MaxEpisodes}]
    \cup [kind : {"Episode"}]

HasTitle(req) == "title_len" \in DOMAIN req

\* A Stream: its infoHash (its rank in the indexer's list) and what the two
\* name predicates of torrentio.filters answer for its name.
StreamLists ==
    UNION {
        { [i \in 1..n |-> [infoHash |-> i, year |-> f[i][1], season |-> f[i][2]]] :
            f \in [1..n -> BOOLEAN \X BOOLEAN] } :
        n \in 0..MaxStreams }

\* __init__ with filters=None: [] extended by the two baseline predicates.
BaselineFilters == <<"filter_samples", "filter_extension">>

name_contains_full_season(stream) == stream.season
name_contains_release_year(stream) == stream.year

filter_full_season_named_streams(ss) == SelectSeq(ss, name_contains_full_season)
\* Mutant: the release-year pre-filter keeps every stream.
filter_streams_with_release_year_KeepAll(ss) == ss

filter_streams_with_release_year(ss) == SelectSeq(ss, name_contains_release_year)

\* _find_bundle_with_file_count: ffs = self.filters + [filter]
WithFilter(fs, f) == fs \o <<f>>

\* Mutant: the count is rounded up instead of truncated.
RatioCount_Ceil(episodes, pct) == (Cardinality(episodes) * pct + 99) \div 100

\* Mutant: the predicate is appended to self.filters itself.
KeptFilters_Appended(fs, f) == fs \o <<f>>

\* What self.filters holds after `self.filters + [filter]`: the concatenation
\* builds a new list and leaves self.filters as it was.
KeptFilters(fs, f) == fs

\* _find_bundle_with_file_ratio: count = int(len(self.request.episodes) * ratio)
RatioCount(episodes, pct) == (Cardinality(episodes) * pct) \div 100

\* The ratio download_show passes to _find_bundle_with_file_ratio in its
\* first (0.8) and second (0) loop, in percent.
LoopRatio(lp) == IF lp = 1 THEN FirstPassPct ELSE SecondPassPct

\* The strategy-specific predicate each strategy builds with functools.partial.
StrategyFilter(strat) ==
    IF strat = "download_movie" THEN "movie_name_filter" ELSE "episode_filter"

\* One entry of the call trace: the collaborator's method, its arguments and
\* what it answered (ok: a Bundle / an id / no "error" key / an ack).
Call(op, hash, count, pct, ffs, id, ok) ==
    [op |-> op, hash |-> hash, count |-> count, ratio |-> pct, ffs |-> ffs,
     id |-> id, ok |-> ok]

\* The for loops over the candidate list: where control goes when the body
\* for cs[i] in loop lp ends without returning (i = 0: the loop is entered).
\* idx = 0 stands for falling off the last loop, i.e. `return None`.
\* Mutant: download_show tries the second ratio on a candidate right after the
\* first, instead of in a second loop.
NextPos_Interleaved(strat, cs, lp, i) ==
    IF strat = "download_show" /\ lp = 1 /\ i > 0
    THEN [loop |-> 2, idx |-> i]
    ELSE IF i < Len(cs) THEN [loop |-> 1, idx |-> i + 1]
    ELSE [loop |-> lp, idx |-> 0]

\* Mutant: a candidate whose body ended without returning is tried once more.
NextPos_Retry(strat, cs, lp, i) ==
    IF strat # "download_show" /\ lp = 1 /\ i > 0
    THEN [loop |-> 2, idx |-> i]
    ELSE IF i < Len(cs) THEN [loop |-> 1, idx |-> i + 1]
    ELSE IF strat = "download_show" /\ lp = 1
         THEN [loop |-> 2, idx |-> IF Len(cs) > 0 THEN 1 ELSE 0]
         ELSE [loop |-> lp, idx |-> 0]

\* Mutant: the loop steps over every other candidate.
NextPos_SkipOne(strat, cs, lp, i) ==
    IF i + 1 < Len(cs) THEN [loop |-> lp, idx |-> i + 2]
    ELSE IF strat = "download_show" /\ lp = 1
         THEN [loop |-> 2, idx |-> IF Len(cs) > 0 THEN 1 ELSE 0]
         ELSE [loop |-> lp, idx |-> 0]

NextPos(strat, cs, lp, i) ==
    IF i < Len(cs) THEN [loop |-> lp, idx |-> i + 1]
    ELSE IF strat = "download_show" /\ lp = 1
         THEN [loop |-> 2, idx |-> IF Len(cs) > 0 THEN 1 ELSE 0]
         ELSE [loop |-> lp, idx |-> 0]

Goto(p) ==
    /\ loop' = p.loop
    /\ idx' = p.idx
    /\ IF p.idx = 0
       THEN pc' = "done" /\ outcome' = "none"
       ELSE pc' = "find_bundle" /\ outcome' = outcome
    /\ ret' = ret

Return(value) ==
    /\ pc' = "done"
    /\ outcome' = "returned"
    /\ ret' = value
    /\ UNCHANGED <<loop, idx>>

Raise ==
    /\ pc' = "done"
    /\ outcome' = "raised"
    /\ UNCHANGED <<loop, idx, ret>>

\* Mutant: _download without the dev_mode short-circuit.
GotBundle_NoDevMode(found) ==
    IF ~found THEN Goto(NextPos(strategy, candidates, loop, idx))
    ELSE pc' = "add_magnet" /\ UNCHANGED <<loop, idx, outcome, ret>>

\* Mutant: the strategy submits the stream although no Bundle was resolved.
GotBundle_NoContinue(found) ==
    IF dev_mode THEN Return(EmptyId)
    ELSE pc' = "add_magnet" /\ UNCHANGED <<loop, idx, outcome, ret>>

\* `if bundle is None: continue`, else `downloaded = await self._download(...)`
\* up to its first await: the dev_mode short-circuit returns "".
GotBundle(found) ==
    IF ~found THEN Goto(NextPos(strategy, candidates, loop, idx))
    ELSE IF dev_mode THEN Return(EmptyId)
    ELSE pc' = "add_magnet" /\ UNCHANGED <<loop, idx, outcome, ret>>

----------------------------------------------------------------------------
\* The strategies, up to their first await.

download_movie ==
    /\ pc = "idle"
    /\ strategy' = "download_movie"
    /\ IF ~HasTitle(request)
       THEN Raise /\ candidates' = <<>>
       ELSE LET cs == IF request.title_len < ShortTitleLen
                      THEN filter_streams_with_release_year(streams)
                      ELSE streams
            IN  candidates' = cs /\ Goto(NextPos("download_movie", cs, 1, 0))
    /\ UNCHANGED <<request, streams, filters, dev_mode, torrent_id, registered, log>>
    /\ UNCHANGED <<lvars, cvars>>

\* name_contains_full_season is handed the request under a cast: for a
\* request that is no SeasonRequest the predicate either works on it or
\* faults on a missing attribute.
download_show ==
    /\ pc = "idle"
    /\ strategy' = "download_show"
    /\ \E faults \in IF request.kind = "Season" \/ streams = <<>>
                    THEN {FALSE} ELSE BOOLEAN :
          IF faults
          THEN Raise /\ candidates' = <<>>
          ELSE LET cs == filter_full_season_named_streams(streams)
               IN  candidates' = cs /\ Goto(NextPos("download_show", cs, 1, 0))
    /\ UNCHANGED <<request, streams, filters, dev_mode, torrent_id, registered, log>>
    /\ UNCHANGED <<lvars, cvars>>

download_episode ==
    /\ pc = "idle"
    /\ strategy' = "download_episode"
    /\ IF request.kind \in {"Movie", "Season"}
       THEN Raise /\ candidates' = <<>>
       ELSE candidates' = streams
            /\ Goto(NextPos("download_episode", streams, 1, 0))
    /\ UNCHANGED <<request, streams, filters, dev_mode, torrent_id, registered, log>>
    /\ UNCHANGED <<lvars, cvars>>

download_episode_from_bundle ==
    /\ pc = "idle"
    /\ strategy' = "download_episode_from_bundle"
    /\ candidates' = streams
    /\ Goto(NextPos("download_episode_from_bundle", streams, 1, 0))
    /\ UNCHANGED <<request, streams, filters, dev_mode, torrent_id, registered, log>>
    /\ UNCHANGED <<lvars, cvars>>

----------------------------------------------------------------------------
\* The resolver calls.

find_bundle_with_file_count ==
    /\ pc = "find_bundle"
    /\ strategy \in {"download_movie", "download_episode"}
    /\ \E found \in BOOLEAN :
          /\ log' = Append(log, Call("get_rd_bundle_with_file_count",
                                     candidates[idx].infoHash, ExactCount, 0,
                                     WithFilter(filters, StrategyFilter(strategy)),
                                     0, found))
          /\ GotBundle(found)
    /\ filters' = KeptFilters(filters, StrategyFilter(strategy))
    /\ UNCHANGED <<request, streams, dev_mode, strategy, candidates,
                   torrent_id, registered>>
    /\ UNCHANGED <<lvars, cvars>>

find_bundle_with_file ==
    /\ pc = "find_bundle"
    /\ strategy = "download_episode_from_bundle"
    /\ IF request.kind # "Episode"
       THEN Raise /\ log' = log /\ filters' = filters
       ELSE \E found \in BOOLEAN :
              /\ log' = Append(log, Call("get_rd_bundle_with_file_match",
                                         candidates[idx].infoHash, 0, 0,
                                         WithFilter(filters, "episode_filter"),
                                         0, found))
              /\ GotBundle(found)
              /\ filters' = KeptFilters(filters, "episode_filter")
    /\ UNCHANGED <<request, streams, dev_mode, strategy, candidates,
                   torrent_id, registered>>
    /\ UNCHANGED <<lvars, cvars>>

find_bundle_with_file_ratio ==
    /\ pc = "find_bundle"
    /\ strategy = "download_show"
    /\ IF request.kind # "Season"
       THEN Raise /\ log' = log
       ELSE \E found \in BOOLEAN :
              /\ log' = Append(log, Call("get_rd_bundle_with_file_count_gte",
                                         candidates[idx].infoHash,
                                         RatioCount(request.episodes, LoopRatio(loop)),
                                         LoopRatio(loop), filters, 0, found))
              /\ GotBundle(found)
    /\ UNCHANGED <<request, streams, filters, dev_mode, strategy, candidates,
                   torrent_id, registered>>
    /\ UNCHANGED <<lvars, cvars>>

----------------------------------------------------------------------------
\* _download, one action per await.

\* Mutant: _download goes on to select_files although add_magnet gave no id.
add_magnet_NoIdCheck ==
    /\ pc = "add_magnet"
    /\ \E got_id \in BOOLEAN :
          IF got_id
          THEN /\ registered' = registered + 1
               /\ torrent_id' = registered + 1
               /\ log' = Append(log, Call("add_magnet", candidates[idx].infoHash,
                                          0, 0, <<>>, registered + 1, TRUE))
          ELSE /\ log' = Append(log, Call("add_magnet", candidates[idx].infoHash,
                                          0, 0, <<>>, 0, FALSE))
               /\ torrent_id' = 0
               /\ registered' = registered
    /\ pc' = "select_files"
    /\ UNCHANGED <<loop, idx, outcome, ret>>
    /\ UNCHANGED <<request, streams, filters, dev_mode, strategy, candidates>>
    /\ UNCHANGED <<lvars, cvars>>

\* torrent = await self.rdbc.add_magnet(...): the service creates a transfer
\* and answers with its (fresh) id, or answers without an id.
add_magnet ==
    /\ pc = "add_magnet"
    /\ \E got_id \in BOOLEAN :
          IF got_id
          THEN /\ registered' = registered + 1
               /\ torrent_id' = registered + 1
               /\ log' = Append(log, Call("add_magnet", candidates[idx].infoHash,
                                          0, 0, <<>>, registered + 1, TRUE))
               /\ pc' = "select_files"
               /\ UNCHANGED <<loop, idx, outcome, ret>>
          ELSE /\ log' = Append(log, Call("add_magnet", candidates[idx].infoHash,
                                          0, 0, <<>>, 0, FALSE))
               /\ Goto(NextPos(strategy, candidates, loop, idx))
               /\ UNCHANGED <<registered, torrent_id>>
    /\ UNCHANGED <<request, streams, filters, dev_mode, strategy, candidates>>
    /\ UNCHANGED <<lvars, cvars>>

\* Mutant: _download returns the id of the transfer registered before.
Downloaded_Stale(tid) == IF tid > 1 THEN tid - 1 ELSE tid

\* What _download returns once select_files answered without an error.
Downloaded(tid) == tid

\* Mutant: a failed restriction leaves the transfer behind (no removal).
select_files_NoRemoval ==
    /\ pc = "select_files"
    /\ \E error \in BOOLEAN :
          /\ log' = Append(log, Call("select_files", candidates[idx].infoHash,
                                     0, 0, <<>>, torrent_id, ~error))
          /\ IF error
             THEN Goto(NextPos(strategy, candidates, loop, idx))
             ELSE Return(Downloaded(torrent_id))
    /\ UNCHANGED <<request, streams, filters, dev_mode, strategy, candidates,
                   torrent_id, registered>>
    /\ UNCHANGED <<lvars, cvars>>

select_files ==
    /\ pc = "select_files"
    /\ \E error \in BOOLEAN :
          /\ log' = Append(log, Call("select_files", candidates[idx].infoHash,
                                     0, 0, <<>>, torrent_id, ~error))
          /\ IF error
             THEN pc' = "delete_magnet" /\ UNCHANGED <<loop, idx, outcome, ret>>
             ELSE Return(Downloaded(torrent_id))
    /\ UNCHANGED <<request, streams, filters, dev_mode, strategy, candidates,
                   torrent_id, registered>>
    /\ UNCHANGED <<lvars, cvars>>

\* result = await self.rdbc.delete_magnet(torrent_id); return None
delete_magnet ==
    /\ pc = "delete_magnet"
    /\ \E ack \in BOOLEAN :
          log' = Append(log, Call("delete_magnet", candidates[idx].infoHash,
                                  0, 0, <<>>, torrent_id, ack))
    /\ Goto(NextPos(strategy, candidates, loop, idx))
    /\ UNCHANGED <<request, streams, filters, dev_mode, strategy, candidates,
                   torrent_id, registered>>
    /\ UNCHANGED <<lvars, cvars>>

----------------------------------------------------------------------------
DInit ==
    /\ request \in Requests
    /\ streams \in StreamLists
    /\ filters = BaselineFilters
    /\ dev_mode \in BOOLEAN
    /\ strategy = ""
    /\ pc = "idle"
    /\ candidates = <<>>
    /\ idx = 0
    /\ loop = 1
    /\ torrent_id = 0
    /\ registered = 0
    /\ log = <<>>
    /\ outcome = "pending"
    /\ ret = EmptyId

LQuiet ==
    /\ rows = {}
    /\ next_pk = 1
    /\ cpc = <<>>
    /\ cdl = <<>>
    /\ cseen = <<>>

CQuiet ==
    /\ given = [omitted |-> TRUE, list |-> <<>>]
    /\ caller_list = <<>>
    /\ eng_ref = <<>>
    /\ eng_own = <<>>
    /\ eng_ffs = <<>>

Init == DInit /\ LQuiet /\ CQuiet

Next ==
    \/ download_movie
    \/ download_show
    \/ download_episode
    \/ download_episode_from_bundle
    \/ find_bundle_with_file_count
    \/ find_bundle_with_file
    \/ find_bundle_with_file_ratio
    \/ add_magnet
    \/ select_files
    \/ delete_magnet

Spec == Init /\ [][Next]_vars

----------------------------------------------------------------------------
\* The dedup ledger.

\* A nullable season / episode column holding no value (a movie-level or
\* season-level record).
Null == 0

ImdbIds == {"tt1", "tt2"}
Callers == 1..NumCallers

\* The ActiveDownload records callers build: movie-level, season-level and
\* episode-level identity tuples.
Downloads ==
    { d \in [imdb_id : ImdbIds, season : 0..MaxSeason, episode : 0..MaxEpisodeNo] :
        d.season = Null => d.episode = Null }

SameTuple(r, d) ==
    r.imdb_id = d.imdb_id /\ r.season = d.season /\ r.episode = d.episode

Row(pk, d) ==
    [pk |-> pk, imdb_id |-> d.imdb_id, season |-> d.season, episode |-> d.episode]

\* Mutant: the transaction commits without the row having been added.
add_Nothing(rs, pk, d) == rs

\* add: `async with self.session.begin(): self.session.add(download)`.  The
\* record is inserted as a new row under a new primary key; add makes no test
\* of the rows the table already holds.
add(rs, pk, d) == rs \cup {Row(pk, d)}

\* delete: `await self.session.delete(download)` removes that row.
delete(rs, r) == rs \ {r}

\* Mutant: has_movie asks for a row without season and episode.
has_movie_MovieLevelOnly(rs, imdb_id) ==
    \E r \in rs : r.imdb_id = imdb_id /\ r.season = Null /\ r.episode = Null

has_movie(rs, imdb_id) == \E r \in rs : r.imdb_id = imdb_id

has_season(rs, imdb_id, season) ==
    \E r \in rs : r.imdb_id = imdb_id /\ r.season = season

has_episode(rs, imdb_id, season, episode) ==
    \E r \in rs : r.imdb_id = imdb_id /\ r.season = season /\ r.episode = episode

get_requests(rs) == rs

\* A caller asks the check of its record's granularity before it submits.
Checked(c, d, seen) ==
    /\ cpc[c] = "idle"
    /\ cpc' = [cpc EXCEPT ![c] = IF seen THEN "skipped" ELSE "checked"]
    /\ cdl' = [cdl EXCEPT ![c] = d]
    /\ cseen' = [cseen EXCEPT ![c] = seen]
    /\ UNCHANGED <<rows, next_pk>>
    /\ UNCHANGED <<dvars, cvars>>

CallHasMovie(c) ==
    \E d \in Downloads :
        /\ d.season = Null
        /\ Checked(c, d, has_movie(rows, d.imdb_id))

CallHasSeason(c) ==
    \E d \in Downloads :
        /\ d.season # Null /\ d.episode = Null
        /\ Checked(c, d, has_season(rows, d.imdb_id, d.season))

CallHasEpisode(c) ==
    \E d \in Downloads :
        /\ d.episode # Null
        /\ Checked(c, d, has_episode(rows, d.imdb_id, d.season, d.episode))

\* The caller that saw no row records its submission.
CallAdd(c) ==
    /\ cpc[c] = "checked"
    /\ rows' = add(rows, next_pk, cdl[c])
    /\ next_pk' = next_pk + 1
    /\ cpc' = [cpc EXCEPT ![c] = "added"]
    /\ UNCHANGED <<cdl, cseen>>
    /\ UNCHANGED <<dvars, cvars>>

\* The lifecycle sweep removes a row it read with get_requests.
CallDelete ==
    /\ \E r \in get_requests(rows) : rows' = delete(rows, r)
    /\ UNCHANGED <<next_pk, cpc, cdl, cseen>>
    /\ UNCHANGED <<dvars, cvars>>

DQuiet ==
    /\ request = [kind |-> "Episode"]
    /\ streams = <<>>
    /\ filters = BaselineFilters
    /\ dev_mode = FALSE
    /\ strategy = ""
    /\ pc = "idle"
    /\ candidates = <<>>
    /\ idx = 0
    /\ loop = 1
    /\ torrent_id = 0
    /\ registered = 0
    /\ log = <<>>
    /\ outcome = "pending"
    /\ ret = EmptyId

LInit ==
    /\ rows = {}
    /\ next_pk = 1
    /\ cpc = [c \in Callers |-> "idle"]
    /\ cdl = [c \in Callers |-> [imdb_id |-> "tt1", season |-> Null, episode |-> Null]]
    /\ cseen = [c \in Callers |-> FALSE]

LedgerInit == DQuiet /\ LInit /\ CQuiet

LedgerNext ==
    \/ \E c \in Callers : CallHasMovie(c)
    \/ \E c \in Callers : CallHasSeason(c)
    \/ \E c \in Callers : CallHasEpisode(c)
    \/ \E c \in Callers : CallAdd(c)
    \/ CallDelete

LedgerSpec == LedgerInit /\ [][LedgerNext]_vars

----------------------------------------------------------------------------
\* Engines constructed from one caller-supplied filter list.

Engines == 1..NumEngines
CustomFilters == {"filter_a", "filter_b"}

\* The `filters` argument: omitted (None), or a list of the caller's predicates.
FilterArgs ==
    {[omitted |-> TRUE, list |-> <<>>]}
    \cup {[omitted |-> FALSE, list |-> l] :
            l \in UNION {[1..n -> CustomFilters] : n \in 0..MaxCustom}}

\* `filters or []`: the caller's own list object when it is given and not
\* empty, a new empty list otherwise.
UsesCallerList(arg) == ~arg.omitted /\ arg.list # <<>>

\* self.filters.extend((filter_samples, filter_extension)), in place.
Extended(fs) == fs \o BaselineFilters

\* The list self.filters of engine e refers to.
EngineFilters(e) == IF eng_ref[e] = "caller" THEN caller_list ELSE eng_own[e]

\* RealDebridDownloader.__init__ of engine e with the caller's argument.
Construct(e) ==
    /\ eng_ref[e] = "unbuilt"
    /\ IF UsesCallerList(given)
       THEN /\ eng_ref' = [eng_ref EXCEPT ![e] = "caller"]
            /\ caller_list' = Extended(caller_list)
            /\ eng_own' = eng_own
       ELSE /\ eng_ref' = [eng_ref EXCEPT ![e] = "own"]
            /\ eng_own' = [eng_own EXCEPT ![e] = Extended(<<>>)]
            /\ caller_list' = caller_list
    /\ UNCHANGED <<given, eng_ffs>>
    /\ UNCHANGED <<dvars, lvars>>

\* A resolver call of engine e: _find_bundle_with_file_count and
\* _find_bundle_with_file pass self.filters + [filter],
\* _find_bundle_with_file_ratio passes self.filters.
FindBundle(e) ==
    /\ eng_ref[e] # "unbuilt"
    /\ \E strat \in {"download_movie", "download_show", "download_episode",
                    "download_episode_from_bundle"} :
          eng_ffs' = [eng_ffs EXCEPT ![e] =
                        IF strat = "download_show" THEN EngineFilters(e)
                        ELSE WithFilter(EngineFilters(e), StrategyFilter(strat))]
    /\ UNCHANGED <<given, caller_list, eng_ref, eng_own>>
    /\ UNCHANGED <<dvars, lvars>>

CInit ==
    /\ given \in FilterArgs
    /\ caller_list = given.list
    /\ eng_ref = [e \in Engines |-> "unbuilt"]
    /\ eng_own = [e \in Engines |-> <<>>]
    /\ eng_ffs = [e \in Engines |-> <<>>]

CtorInit == DQuiet /\ LQuiet /\ CInit

CtorNext ==
    \/ \E e \in Engines : Construct(e)
    \/ \E e \in Engines : FindBundle(e)

CtorSpec == CtorInit /\ [][CtorNext]_vars

----------------------------------------------------------------------------
\* Reading the call trace.

IsResolve(e) ==
    e.op \in {"get_rd_bundle_with_file_count", "get_rd_bundle_with_file_match",
              "get_rd_bundle_with_file_count_gte"}

\* Number of resolver calls among the first i entries of the trace.
ResolveCount(i) == Cardinality({j \in 1..i : IsResolve(log[j])})

\* The hashes the resolver was asked about, in call order.
ResolvedHashes ==
    LET r == SelectSeq(log, IsResolve) IN [k \in DOMAIN r |-> r[k].hash]

HashesOf(ss) == [k \in DOMAIN ss |-> ss[k].infoHash]

\* The order in which the invoked strategy goes through its candidate list.
IterOrder ==
    IF strategy = "download_show"
    THEN HashesOf(candidates) \o HashesOf(candidates)
    ELSE HashesOf(candidates)

IsPrefix(a, b) == Len(a) <= Len(b) /\ \A k \in 1..Len(a) : a[k] = b[k]

\* The trace entry i is a resolver call that returned a Bundle, followed by a
\* registration of the same candidate that returned an id and a restriction
\* of that transfer that reported no error.
Submitted(i) ==
    /\ i + 2 <= Len(log)
    /\ IsResolve(log[i]) /\ log[i].ok
    /\ log[i + 1].op = "add_magnet" /\ log[i + 1].ok
    /\ log[i + 1].hash = log[i].hash
    /\ log[i + 2].op = "select_files" /\ log[i + 2].ok
    /\ log[i + 2].id = log[i + 1].id

RightVariant ==
    \/ strategy = "download_movie" /\ request.kind = "Movie"
    \/ strategy = "download_show" /\ request.kind = "Season"
    \/ strategy \in {"download_episode", "download_episode_from_bundle"}
       /\ request.kind = "Episode"

Min(S) == CHOOSE m \in S : \A n \in S : m <= n

----------------------------------------------------------------------------
\* C1: with no-op mode off, a strategy invoked with a request of its variant
\* goes through its candidates in iteration order and returns the transfer id
\* registered for the first candidate whose resolution, registration and
\* restriction all succeeded; when there is none, after every candidate of
\* every pass was tried, it returns None and does not raise.
C1_FirstSubmittedIsReturned ==
    (pc = "done" /\ RightVariant /\ ~dev_mode) =>
        LET ok == {i \in DOMAIN log : Submitted(i)} IN
        IF ok = {}
        THEN outcome = "none" /\ ResolvedHashes = IterOrder
        ELSE LET f == Min(ok) IN
             /\ outcome = "returned"
             /\ ret = log[f + 1].id
             /\ IsPrefix(ResolvedHashes, IterOrder)
             /\ log[f].hash = IterOrder[ResolveCount(f)]
             /\ f + 2 = Len(log)

\* A run in which the first candidate failed and a later one was submitted.
C1_Witness ==
    /\ pc = "done" /\ RightVariant /\ ~dev_mode
    /\ outcome = "returned"
    /\ Len(ResolvedHashes) >= 2
    /\ \E i \in DOMAIN log : log[i].op = "select_files" /\ ~log[i].ok

----------------------------------------------------------------------------
\* C2: in download_show the two passes never interleave: a pass-2 resolver
\* call comes after pass 1 asked the resolver about every full-season-named
\* candidate, only when no pass-1 submission succeeded, and pass 2 goes
\* through the same filtered list again from its first candidate; after a
\* successful pass-1 submission no pass-2 resolver call is issued.
C2_PassesDoNotInterleave ==
    (strategy = "download_show" /\ request.kind = "Season") =>
        LET p1 == {i \in DOMAIN log : IsResolve(log[i]) /\ log[i].ratio = FirstPassPct}
            p2 == {i \in DOMAIN log : IsResolve(log[i]) /\ log[i].ratio = SecondPassPct}
            h1 == HashesOf(candidates)
        IN  /\ \A j \in p2 : \A i \in (j + 1)..Len(log) :
                   ~(IsResolve(log[i]) /\ log[i].ratio = FirstPassPct)
            /\ p2 # {} =>
                 /\ Cardinality(p1) = Len(candidates)
                 /\ \A i \in 1..(Min(p2) - 1) : ~Submitted(i)
            /\ IsPrefix(ResolvedHashes, h1 \o h1)
            /\ \A j \in p2 : log[j].hash = h1[ResolveCount(j) - Len(h1)]
            /\ (\E i \in DOMAIN log : Submitted(i) /\ log[i].ratio = FirstPassPct)
                 => p2 = {} /\ pc = "done" /\ outcome = "returned"

\* Pass 2 ran over both candidates of a two-candidate list.
C2_Witness ==
    /\ strategy = "download_show" /\ request.kind = "Season"
    /\ Len(candidates) = 2
    /\ Cardinality({i \in DOMAIN log :
                      IsResolve(log[i]) /\ log[i].ratio = SecondPassPct}) = 2
    /\ \E i \in DOMAIN log : log[i].op = "add_magnet"

----------------------------------------------------------------------------
\* A submission that ended without an identifier: registration returned no
\* id, or restriction of the registered transfer reported an error.
FailedAt(i) ==
    /\ log[i].op = "add_magnet"
    /\ \/ ~log[i].ok
       \/ i < Len(log) /\ log[i + 1].op = "select_files" /\ ~log[i + 1].ok

\* Nothing is called after a restriction that succeeded: the strategy returns.
StopsAtFirstSuccess ==
    \A i \in DOMAIN log :
        (log[i].op = "select_files" /\ log[i].ok) =>
            i = Len(log) /\ pc = "done" /\ outcome = "returned"

\* C3 as claimed: each strategy stops at the first successful submission, and
\* within one invocation (both passes of download_show included) no candidate
\* is asked of the resolver or registered with the remote service twice.
C3_NoRetryAtAll ==
    /\ StopsAtFirstSuccess
    /\ \A j \in DOMAIN log :
         log[j].op = "add_magnet" =>
            \A i \in 1..(j - 1) :
               log[i].op = "add_magnet" => log[i].hash # log[j].hash

\* C3 amended: each strategy stops at the first successful submission; within
\* one pass no candidate is resolved or registered twice; a candidate is
\* registered a second time only by download_show, in its second pass, after
\* the submission of its first pass failed.
C3_NoRetryWithinAPass ==
    /\ StopsAtFirstSuccess
    /\ \A j \in DOMAIN log :
         IsResolve(log[j]) =>
            \A i \in 1..(j - 1) :
               (IsResolve(log[i]) /\ log[i].hash = log[j].hash)
                  => /\ strategy = "download_show"
                     /\ log[i].ratio = FirstPassPct /\ log[j].ratio = SecondPassPct
    /\ \A j \in DOMAIN log :
         log[j].op = "add_magnet" =>
            \A i \in 1..(j - 1) :
               (log[i].op = "add_magnet" /\ log[i].hash = log[j].hash)
                  => /\ strategy = "download_show"
                     /\ log[i - 1].ratio = FirstPassPct
                     /\ log[j - 1].ratio = SecondPassPct
                     /\ FailedAt(i)

\* download_show registered in pass 2 a candidate whose pass-1 restriction had failed.
C3_Witness ==
    \E i, j \in DOMAIN log :
        /\ i < j
        /\ log[i].op = "add_magnet" /\ log[j].op = "add_magnet"
        /\ log[i].hash = log[j].hash
        /\ log[i].ok /\ log[j].ok

----------------------------------------------------------------------------
\* C4: when restriction of a just-registered transfer reports an error, one
\* removal call for that transfer id follows at once and no other is ever
\* issued for it, the id is not returned, and whatever the removal answers the
\* strategy goes on with the next candidate in iteration order (or returns
\* None when there is none); no removal is issued for anything else.
C4_FailedRestrictionIsRemovedOnce ==
    /\ \A i \in DOMAIN log :
         (log[i].op = "select_files" /\ ~log[i].ok) =>
            /\ i = Len(log) => pc = "delete_magnet" /\ torrent_id = log[i].id
            /\ i < Len(log) =>
                 /\ log[i + 1].op = "delete_magnet"
                 /\ log[i + 1].id = log[i].id
                 /\ log[i + 1].hash = log[i].hash
            /\ Cardinality({j \in DOMAIN log :
                  log[j].op = "delete_magnet" /\ log[j].id = log[i].id}) <= 1
            /\ outcome = "returned" => ret # log[i].id
            /\ i + 1 = Len(log) =>
                 IF ResolveCount(i) < Len(IterOrder)
                 THEN /\ pc = "find_bundle"
                      /\ candidates[idx].infoHash = IterOrder[ResolveCount(i) + 1]
                 ELSE pc = "done" /\ outcome = "none"
            /\ i + 1 < Len(log) =>
                 /\ IsResolve(log[i + 2])
                 /\ log[i + 2].hash = IterOrder[ResolveCount(i) + 1]
    /\ \A j \in DOMAIN log :
         log[j].op = "delete_magnet" =>
            j > 1 /\ log[j - 1].op = "select_files" /\ ~log[j - 1].ok
                  /\ log[j - 1].id = log[j].id

\* A restriction failed, its removal failed too, and the next candidate was resolved.
C4_Witness ==
    \E i \in DOMAIN log :
        /\ log[i].op = "select_files" /\ ~log[i].ok
        /\ i + 2 <= Len(log)
        /\ log[i + 1].op = "delete_magnet" /\ ~log[i + 1].ok
        /\ IsResolve(log[i + 2]) /\ log[i + 2].hash # log[i].hash

----------------------------------------------------------------------------
\* C5: in no-op mode no registration, restriction or removal call is issued;
\* the first resolver call that returns a Bundle ends the strategy, which
\* returns the empty identifier (so a Bundle found in pass 1 of download_show
\* means pass 2 is not entered), and nothing but the empty identifier is
\* ever returned.
C5_DevModeMutatesNothing ==
    dev_mode =>
        /\ \A i \in DOMAIN log : IsResolve(log[i])
        /\ registered = 0
        /\ \A i \in DOMAIN log :
             log[i].ok => /\ i = Len(log)
                          /\ pc = "done" /\ outcome = "returned" /\ ret = EmptyId
        /\ outcome = "returned" => log # <<>> /\ log[Len(log)].ok /\ ret = EmptyId

\* In no-op mode the second candidate resolved a Bundle and "" was returned.
C5_Witness ==
    /\ dev_mode /\ pc = "done" /\ outcome = "returned" /\ ret = EmptyId
    /\ Len(log) = 2 /\ ~log[1].ok /\ log[2].ok

----------------------------------------------------------------------------
\* C6: a registration call is issued only for the candidate for which the
\* resolver has just returned a Bundle; when every resolver call of a finished
\* invocation returned no Bundle, no registration was issued and the strategy
\* returned None.
C6_RegistrationOnlyAfterBundle ==
    /\ \A i \in DOMAIN log :
         log[i].op = "add_magnet" =>
            /\ i > 1
            /\ IsResolve(log[i - 1]) /\ log[i - 1].ok
            /\ log[i - 1].hash = log[i].hash
    /\ (pc = "done" /\ RightVariant /\ \A i \in DOMAIN log : IsResolve(log[i]) => ~log[i].ok)
          => /\ outcome = "none"
             /\ registered = 0
             /\ \A i \in DOMAIN log : IsResolve(log[i])

\* download_movie went through two candidates that resolved no Bundle.
C6_Witness ==
    /\ strategy = "download_movie" /\ pc = "done" /\ outcome = "none"
    /\ Len(log) = 2 /\ ~log[1].ok /\ ~log[2].ok

----------------------------------------------------------------------------
\* C7: download_movie with a title shorter than 6 characters asks the
\* resolver only about streams that pass the release-year predicate, in their
\* original relative order; with a title of 6 or more characters every stream
\* is eligible, in list order; unless a submission succeeded first, every
\* eligible stream is asked about.
C7_ShortTitleResolvesReleaseYearOnly ==
    (strategy = "download_movie" /\ request.kind = "Movie") =>
        LET rh == ResolvedHashes
            short == request.title_len < ShortTitleLen
            eligible == {h \in DOMAIN streams : short => streams[h].year}
        IN  /\ \A k \in DOMAIN rh : rh[k] \in eligible
            /\ \A k, m \in DOMAIN rh : k < m => rh[k] < rh[m]
            /\ \A k \in DOMAIN rh : \A h \in eligible : h < rh[k] => \E m \in 1..k : rh[m] = h
            /\ (pc = "done" /\ outcome = "none") => {rh[k] : k \in DOMAIN rh} = eligible

\* A short title: the first stream lacks a release year and was passed over.
C7_Witness ==
    /\ strategy = "download_movie" /\ request.kind = "Movie"
    /\ request.title_len < ShortTitleLen
    /\ Len(streams) = 2 /\ ~streams[1].year /\ streams[2].year
    /\ ResolvedHashes = <<2>>

----------------------------------------------------------------------------
\* C8: an Episode-only strategy (download_episode,
\* download_episode_from_bundle) invoked with a Movie or Season request issues
\* no remote call and ends by raising, whatever the candidate list, the empty
\* list included.
C8_EpisodeStrategiesRaiseOnWrongVariant ==
    (strategy \in {"download_episode", "download_episode_from_bundle"}
        /\ request.kind \in {"Movie", "Season"})
       => /\ log = <<>>
          /\ pc = "done" => outcome = "raised"

----------------------------------------------------------------------------
\* C9: download_show invoked with a request that is no Season request ends by
\* raising and never returns None, whatever the candidate list, including an
\* empty list and a list without a full-season-named candidate.
C9_ShowRaisesOnWrongVariant ==
    (strategy = "download_show" /\ request.kind # "Season" /\ pc = "done")
       => outcome = "raised"

----------------------------------------------------------------------------
\* C10: the ledger holds at most one row per (identity, season, episode)
\* tuple in every reachable state, whatever the interleaving of the callers'
\* existence checks, add() calls and the sweep's delete() calls.
C10_OneRowPerTuple ==
    \A r1, r2 \in rows : SameTuple(r1, r2) => r1 = r2

----------------------------------------------------------------------------
\* The existence check of a record's own granularity.
CheckFor(rs, d) ==
    IF d.season = Null THEN has_movie(rs, d.imdb_id)
    ELSE IF d.episode = Null THEN has_season(rs, d.imdb_id, d.season)
    ELSE has_episode(rs, d.imdb_id, d.season, d.episode)

\* C11: ledger round trip.  A step in which a caller's add(record) commits
\* leaves a table on which has_movie, has_season and has_episode, each asked
\* with the record's values, answer true as far as the record has them (and
\* so does the check of its own granularity); a step in which delete(record)
\* removes the only row of an identity leaves a table on which has_movie,
\* has_season and has_episode answer false for that identity.
C11_LedgerRoundTrip ==
    [][ /\ \A c \in Callers :
             (cpc[c] = "checked" /\ cpc'[c] = "added") =>
                /\ CheckFor(rows', cdl[c])
                /\ has_movie(rows', cdl[c].imdb_id)
                /\ cdl[c].season # Null =>
                      has_season(rows', cdl[c].imdb_id, cdl[c].season)
                /\ cdl[c].episode # Null =>
                      has_episode(rows', cdl[c].imdb_id, cdl[c].season, cdl[c].episode)
        /\ \A r \in rows :
             (cpc' = cpc /\ r \notin rows'
                 /\ \A q \in rows : q.imdb_id = r.imdb_id => q = r) =>
                /\ ~has_movie(rows', r.imdb_id)
                /\ \A sn \in 0..MaxSeason : ~has_season(rows', r.imdb_id, sn)
                /\ \A sn \in 0..MaxSeason, ep \in 0..MaxEpisodeNo :
                      ~has_episode(rows', r.imdb_id, sn, ep)
      ]_vars

\* One caller's record was added and is found; another caller's record was
\* added and then deleted, the only row of its identity, and is found no more.
C11_Witness ==
    \E c1, c2 \in Callers :
        /\ cpc[c1] = "added" /\ CheckFor(rows, cdl[c1])
        /\ cpc[c2] = "added" /\ ~has_movie(rows, cdl[c2].imdb_id)

----------------------------------------------------------------------------
\* C12: the existence checks are scoped exactly to their granularity:
\* has_movie(id) holds exactly when a movie-level row (no season, no episode)
\* of that id exists, has_season(id, s) exactly when a season-level row (no
\* episode) of (id, s) exists, has_episode(id, s, e) exactly when a row of
\* (id, s, e) exists.
C12_ChecksScopedToGranularity ==
    \A id \in ImdbIds :
        /\ has_movie(rows, id) <=>
              \E r \in rows : r.imdb_id = id /\ r.season = Null /\ r.episode = Null
        /\ \A sn \in 1..MaxSeason :
              /\ has_season(rows, id, sn) <=>
                    \E r \in rows : r.imdb_id = id /\ r.season = sn /\ r.episode = Null
              /\ \A ep \in 1..MaxEpisodeNo :
                    has_episode(rows, id, sn, ep) <=>
                       \E r \in rows : r.imdb_id = id /\ r.season = sn /\ r.episode = ep

----------------------------------------------------------------------------
\* C19: in every ledger state the existence checks are nested:
\* has_episode(id, s, e) implies has_season(id, s), has_season(id, s) implies
\* has_movie(id), and has_movie(id) holds whenever a season-level or
\* episode-level row of that identity exists.
C19_ChecksAreNested ==
    \A id \in ImdbIds :
        /\ \A sn \in 1..MaxSeason :
              /\ has_season(rows, id, sn) => has_movie(rows, id)
              /\ \A ep \in 1..MaxEpisodeNo :
                    has_episode(rows, id, sn, ep) => has_season(rows, id, sn)
        /\ (\E r \in rows : r.imdb_id = id /\ r.season # Null) => has_movie(rows, id)

\* The table holds an episode-level row and no other row of its identity.
C19_Witness ==
    \E r \in rows :
        /\ r.episode # Null
        /\ has_episode(rows, r.imdb_id, r.season, r.episode)
        /\ \A q \in rows : q.imdb_id = r.imdb_id => q = r

----------------------------------------------------------------------------
\* The evaluation of a candidate ended at trace entry i without an identifier:
\* no Bundle, no id from registration, or the removal after a failed
\* restriction.
Completed(i) ==
    \/ IsResolve(log[i]) /\ ~log[i].ok
    \/ log[i].op = "add_magnet" /\ ~log[i].ok
    \/ log[i].op = "delete_magnet"

\* C13: within one invocation the candidates are evaluated strictly one after
\* the other in list order: the resolver is asked about the candidates in
\* iteration order, a resolver call is issued only when the evaluation of the
\* candidate before it is complete, every registration, restriction and
\* removal call concerns the candidate the resolver was last asked about, and
\* nothing is called after the submission that succeeded.
C13_CandidatesEvaluatedSequentially ==
    /\ IsPrefix(ResolvedHashes, IterOrder)
    /\ \A i \in DOMAIN log :
         i > 1 =>
            IF IsResolve(log[i])
            THEN Completed(i - 1)
            ELSE log[i - 1].hash = log[i].hash /\ ~Completed(i - 1)
    /\ log # <<>> => IsResolve(log[1])
    /\ (pc = "find_bundle" /\ log # <<>>) => Completed(Len(log))
    /\ StopsAtFirstSuccess

\* The first candidate went through registration, failed restriction and
\* removal before the resolver was asked about the second one.
C13_Witness ==
    /\ Len(log) >= 5
    /\ log[4].op = "delete_magnet" /\ log[4].hash = 1
    /\ IsResolve(log[5]) /\ log[5].hash = 2

----------------------------------------------------------------------------
\* C14: when registration returns no identifier the candidate has failed: the
\* next call, if any, is the resolver call for the next candidate in iteration
\* order (so no restriction and no removal is issued for it), the submission
\* yields no identifier, and with no candidate left the strategy returns None.
C14_NoIdMeansCandidateFailed ==
    \A i \in DOMAIN log :
        (log[i].op = "add_magnet" /\ ~log[i].ok) =>
            /\ i = Len(log) =>
                 IF ResolveCount(i) < Len(IterOrder)
                 THEN /\ pc = "find_bundle"
                      /\ candidates[idx].infoHash = IterOrder[ResolveCount(i) + 1]
                 ELSE pc = "done" /\ outcome = "none"
            /\ i < Len(log) =>
                 /\ IsResolve(log[i + 1])
                 /\ log[i + 1].hash = IterOrder[ResolveCount(i) + 1]

\* A registration without an id was followed by the resolver call for the
\* next candidate.
C14_Witness ==
    \E i \in DOMAIN log :
        /\ log[i].op = "add_magnet" /\ ~log[i].ok
        /\ i < Len(log)
        /\ IsResolve(log[i + 1]) /\ log[i + 1].hash # log[i].hash

----------------------------------------------------------------------------
\* C15: for a Season request with N requested episodes every resolver call of
\* download_show is the at-least-count call with the baseline filters only;
\* in pass 1 its minimum count is floor(0.8 * N) (N = 5 gives 4, N = 3 gives
\* 2, N = 1 gives 0), in pass 2 it is 0.
C15_PassThresholds ==
    (strategy = "download_show" /\ request.kind = "Season") =>
        LET n == Cardinality(request.episodes) IN
        \A i \in DOMAIN log :
            IsResolve(log[i]) =>
                /\ log[i].op = "get_rd_bundle_with_file_count_gte"
                /\ log[i].ffs = <<"filter_samples", "filter_extension">>
                /\ IF log[i].ratio = FirstPassPct
                   THEN /\ 5 * log[i].count <= 4 * n
                        /\ 4 * n < 5 * (log[i].count + 1)
                        /\ n = 5 => log[i].count = 4
                        /\ n = 3 => log[i].count = 2
                        /\ n = 1 => log[i].count = 0
                   ELSE log[i].count = 0

\* Five requested episodes: pass 1 asked for at least 4 files, pass 2 for 0.
C15_Witness ==
    /\ strategy = "download_show" /\ request.kind = "Season"
    /\ Cardinality(request.episodes) = 5
    /\ Len(log) >= 2
    /\ log[1].ratio = FirstPassPct /\ log[1].count = 4
    /\ log[Len(log)].ratio = SecondPassPct /\ IsResolve(log[Len(log)])
    /\ log[Len(log)].count = 0

----------------------------------------------------------------------------
\* C18: with no-op mode off, when an invocation has ended, every transfer
\* registered with an id is either the one whose id is returned (and was not
\* removed) or had exactly one removal call; the number of registered
\* transfers left without a removal is 1 when an id is returned and 0
\* otherwise.
C18_NoTransferLeftBehind ==
    (pc = "done" /\ ~dev_mode) =>
        LET reg == {log[i].id : i \in {k \in DOMAIN log :
                                         log[k].op = "add_magnet" /\ log[k].ok}}
            Removals(t) == Cardinality({j \in DOMAIN log :
                              log[j].op = "delete_magnet" /\ log[j].id = t})
        IN  /\ Cardinality(reg) = registered
            /\ \A t \in reg :
                 \/ outcome = "returned" /\ ret = t /\ Removals(t) = 0
                 \/ Removals(t) = 1
            /\ Cardinality({t \in reg : Removals(t) = 0})
                  = IF outcome = "returned" THEN 1 ELSE 0

\* One transfer was removed after a failed restriction, a later one returned.
C18_Witness ==
    /\ pc = "done" /\ ~dev_mode /\ outcome = "returned"
    /\ registered = 2 /\ ret = 2
    /\ \E j \in DOMAIN log : log[j].op = "delete_magnet" /\ log[j].id = 1

----------------------------------------------------------------------------
\* An upper bound on the calls an invocation can still issue.
Remaining ==
    LET total == IF strategy = "download_show"
                 THEN 2 * Len(candidates) ELSE Len(candidates)
        at == (loop - 1) * Len(candidates) + idx
    IN  IF pc = "idle" THEN 8 * Len(streams) + 1
        ELSE IF pc = "find_bundle" THEN 4 * (total - at) + 4
        ELSE IF pc = "add_magnet" THEN 4 * (total - at) + 3
        ELSE IF pc = "select_files" THEN 4 * (total - at) + 2
        ELSE IF pc = "delete_magnet" THEN 4 * (total - at) + 1
        ELSE 0

\* The resolver and registration calls issued so far stay within their budget.
CallBudget ==
    /\ \A h \in 1..Len(streams) :
         Cardinality({i \in DOMAIN log : IsResolve(log[i]) /\ log[i].hash = h})
            <= IF strategy = "download_show"
               THEN (IF streams[h].season THEN 2 ELSE 0)
               ELSE 1
    /\ Cardinality({i \in DOMAIN log : log[i].op = "add_magnet"})
          <= Cardinality({i \in DOMAIN log : IsResolve(log[i]) /\ log[i].ok})

\* C20: every invocation on a finite candidate list terminates when each
\* call returns: every step of the strategy lowers a natural-number bound on
\* the calls still to come and leaves it either finished or with a call for
\* a candidate of its list pending; it issues at most one resolver call per
\* candidate (download_show: at most two per full-season-named candidate,
\* none for the others) and at most one registration per resolver call that
\* returned a Bundle.
C20_TerminatesWithinCallBudget ==
    [][ /\ Remaining' < Remaining
        /\ pc' \in {"find_bundle", "add_magnet", "select_files", "delete_magnet", "done"}
        /\ pc' # "done" => idx' \in 1..Len(candidates')
        /\ CallBudget'
      ]_vars

\* download_show ended after asking the resolver twice about its candidate and
\* registering it twice.
C20_Witness ==
    /\ strategy = "download_show" /\ pc = "done"
    /\ Len(candidates) = 1
    /\ Cardinality({i \in DOMAIN log : IsResolve(log[i])}) = 2
    /\ Cardinality({i \in DOMAIN log : log[i].op = "add_magnet"}) = 2

----------------------------------------------------------------------------
\* C16: every resolver call of a strategy receives both baseline predicates,
\* each once, plus, for the movie and episode strategies, the strategy's own
\* predicate and nothing else; the instance's filter list stays as it was
\* constructed through the whole invocation, so the predicate of one call is
\* not in the filter set of a later call of the engine.
C16_FilterSetPerCall ==
    /\ filters = <<"filter_samples", "filter_extension">>
    /\ \A i \in DOMAIN log :
         IsResolve(log[i]) =>
            log[i].ffs =
               IF strategy = "download_movie"
               THEN <<"filter_samples", "filter_extension", "movie_name_filter">>
               ELSE IF strategy = "download_show"
               THEN <<"filter_samples", "filter_extension">>
               ELSE <<"filter_samples", "filter_extension", "episode_filter">>

\* download_movie asked the resolver about two candidates, one after the other.
C16_Witness ==
    /\ strategy = "download_movie"
    /\ Len(log) = 2
    /\ IsResolve(log[1]) /\ IsResolve(log[2])
    /\ Len(log[2].ffs) = 3

----------------------------------------------------------------------------
\* How often predicate f occurs in the filter sequence fs.
Occurrences(fs, f) == Cardinality({k \in DOMAIN fs : fs[k] = f})

\* C17: the filter set is not shared mutable state: constructing engines
\* with a caller-supplied list leaves the caller's list as the caller built
\* it, every constructed engine's filter set is that list plus the two
\* baselines whatever other engines were constructed from the same list, and
\* every resolver call of an engine receives each baseline predicate exactly
\* once.
C17_FilterListNotShared ==
    /\ caller_list = given.list
    /\ \A e \in Engines :
         eng_ref[e] # "unbuilt" =>
            EngineFilters(e) = given.list \o <<"filter_samples", "filter_extension">>
    /\ \A e \in Engines :
         eng_ffs[e] # <<>> =>
            /\ Occurrences(eng_ffs[e], "filter_samples") = 1
            /\ Occurrences(eng_ffs[e], "filter_extension") = 1

====
